---- MODULE Spec2Model ----
(***************************************************************************)
(* horcrux.py: Shamir secret sharing.  miller_rabin / find_prime choose    *)
(* the modulus, create_polynomial / sample_polynomial / make_shares build  *)
(* the shares, reconstruct interpolates them at x = 0.                     *)
(*                                                                         *)
(* The random source (rd.randint) is a nondeterministic choice over the    *)
(* whole closed interval it draws from.                                    *)
(***************************************************************************)
EXTENDS Integers, Sequences, FiniteSets

\* ---- bounds of the model ------------------------------------------------
\* miller_rabin is called directly with n in 1..MaxCand
MaxCand == 50
\* ... and with tol in 0..MaxTol, or with the default tol
MaxTol == 3
\* make_shares is called with secret in -MaxNeg..MaxSecret
MaxSecret == 5
MaxNeg == 2
\* ... and with n in -1..MaxN
MaxN == 4

\* ---- program constants --------------------------------------------------
\* def miller_rabin(n: int, tol: int = 128)
DefaultTol == 128

VARIABLES
    pc,         \* position of the running call
    caller,     \* who called miller_rabin: "api" or "find_prime"
    mr_n,       \* miller_rabin: n
    mr_tol,     \* miller_rabin: tol
    mr_d,       \* miller_rabin: d
    mr_r,       \* miller_rabin: r
    mr_k,       \* miller_rabin: k, the number of rounds
    answers,    \* miller_rabin: the list answers, as [len, all]
    mr_result,  \* miller_rabin: the returned value
    liars,      \* history: every witness drawn so far is a strong liar for n
    secret,     \* make_shares: secret
    n,          \* make_shares: n
    k,          \* make_shares: k
    bits,       \* make_shares: bits
    p,          \* find_prime: p, then make_shares: p
    poly,       \* make_shares: poly
    points,     \* make_shares: points
    pts,        \* reconstruct: pts
    recovered,  \* reconstruct: the returned value (-1: none)
    raised      \* reconstruct: the exception raised, "none" if it returned

vars == <<pc, caller, mr_n, mr_tol, mr_d, mr_r, mr_k, answers, mr_result,
          liars, secret, n, k, bits, p, poly, points, pts, recovered, raised>>

mrVars == <<mr_n, mr_tol, mr_d, mr_r, mr_k, answers, mr_result, liars>>
shareVars == <<secret, n, k, bits, poly, points>>
recVars == <<pts, recovered, raised>>

\* ---- miller_rabin -------------------------------------------------------

\* def get_dr(d, r): strip the factors of two of d, counting them in r
RECURSIVE get_dr(_, _)
get_dr(d, r) ==
    IF d % 2 /= 0 THEN <<d, r>> ELSE get_dr(d \div 2, r + 1)

\* pow(a, d, n): a ** d mod n
RECURSIVE pow(_, _, _)
pow(a, d, m) ==
    IF d = 0 THEN 1 % m ELSE (a * pow(a, d - 1, m)) % m

\* for _ in range(r): x = (x * x) % n; if x == n - 1: return True
\* ... return False
RECURSIVE SquaringLoop(_, _, _)
SquaringLoop(x, m, left) ==
    IF left <= 0 THEN FALSE
    ELSE LET x2 == (x * x) % m
         IN  IF x2 = m - 1 THEN TRUE ELSE SquaringLoop(x2, m, left - 1)

\* x = pow(a, d, n) with the exponent and the shift count swapped
FirstPowerSwapped(a, d, r, m) == pow(a, r, m)

\* x = pow(a, d, n)
FirstPower(a, d, r, m) == pow(a, d, m)

\* the body of test(n, d, r) once the witness a is drawn
WitnessTestNoMinusOne(m, d, r, a) ==
    LET x == FirstPower(a, d, r, m)
    IN  IF x = 1 THEN TRUE ELSE SquaringLoop(x, m, r)

WitnessTest(m, d, r, a) ==
    LET x == FirstPower(a, d, r, m)
    IN  IF x \in {1, m - 1} THEN TRUE ELSE SquaringLoop(x, m, r)

\* The history variable liars is kept against the textbook definition of a
\* strong liar, which is not taken from the code.

\* the number of bits needed to represent v >= 1
RECURSIVE BitLength(_)
BitLength(v) == IF v < 2 THEN 1 ELSE 1 + BitLength(v \div 2)

\* the odd part of v > 0
OddPart(v) ==
    CHOOSE d \in 1..v :
        d % 2 = 1 /\ \E e \in 0..BitLength(v) : d * (2 ^ e) = v

\* the exponent of two in v > 0
TwoPart(v) == CHOOSE e \in 0..BitLength(v) : OddPart(v) * (2 ^ e) = v

\* a is a strong liar for the odd number m > 2: with m - 1 = 2 ** s * d, d odd,
\* a ** d = 1 or a ** (2 ** j * d) = -1 (mod m) for some 0 <= j < s
StrongLiar(m, a) ==
    \/ pow(a, OddPart(m - 1), m) = 1
    \/ \E j \in 0..(TwoPart(m - 1) - 1) :
          pow(a, OddPart(m - 1) * (2 ^ j), m) = m - 1

\* the list answers holds only booleans and is read only by all(): the model
\* keeps its length and the conjunction of its entries
NoAnswers == [len |-> 0, all |-> TRUE]

AnswersAppend(ans, t) == [len |-> ans.len + 1, all |-> ans.all /\ t]

\* k = tol // 2 + 1
Rounds(tol) == (tol \div 2) + 1

\* miller_rabin(m, tol) up to the list comprehension: the simple cases return,
\* the others set d, r, k and start the rounds.  ret is the position the call
\* returns to.
MillerRabinEnter(m, tol, who, ret) ==
    /\ caller' = who
    /\ mr_n' = m
    /\ mr_tol' = tol
    /\ liars' = TRUE
    /\ answers' = NoAnswers
    /\ IF m \in {2, 3}
       THEN /\ mr_result' = TRUE
            /\ pc' = ret
            /\ UNCHANGED <<mr_d, mr_r, mr_k>>
       ELSE IF (m = 1) \/ (m % 2 = 0)
       THEN /\ mr_result' = FALSE
            /\ pc' = ret
            /\ UNCHANGED <<mr_d, mr_r, mr_k>>
       ELSE /\ mr_d' = get_dr(m - 1, 0)[1]
            /\ mr_r' = get_dr(m - 1, 0)[2]
            /\ mr_k' = Rounds(tol)
            /\ mr_result' = FALSE
            /\ pc' = "mr_test"

ReturnTo(who) == IF who = "api" THEN "mr_done" ELSE "fp_check"

\* a direct call miller_rabin(m, tol)
MillerRabinCall ==
    /\ pc = "idle"
    /\ \E m \in 1..MaxCand, tol \in (0..MaxTol) \cup {DefaultTol} :
          MillerRabinEnter(m, tol, "api", ReturnTo("api"))
    /\ UNCHANGED <<secret, n, k, bits, p, poly, points, pts, recovered, raised>>

\* one entry of [test(n, d, r) for _ in range(k)]: a = rd.randint(2, n - 2)
MillerRabinTest ==
    /\ pc = "mr_test"
    /\ answers.len < mr_k
    /\ \E a \in 2..(mr_n - 2) :
          /\ answers' = AnswersAppend(answers, WitnessTest(mr_n, mr_d, mr_r, a))
          /\ liars' = (liars /\ StrongLiar(mr_n, a))
    /\ UNCHANGED <<pc, caller, mr_n, mr_tol, mr_d, mr_r, mr_k, mr_result>>
    /\ UNCHANGED <<secret, n, k, bits, p, poly, points, pts, recovered, raised>>

\* return all(answers)
MillerRabinReturn ==
    /\ pc = "mr_test"
    /\ answers.len = mr_k
    /\ mr_result' = answers.all
    /\ pc' = ReturnTo(caller)
    /\ UNCHANGED <<caller, mr_n, mr_tol, mr_d, mr_r, mr_k, answers, liars>>
    /\ UNCHANGED <<secret, n, k, bits, p, poly, points, pts, recovered, raised>>

\* ---- find_prime ---------------------------------------------------------

\* lo = 2 ** (bits - 1): the lowest number of exactly `bits` bits
FindPrimeLoSameBits(b) == 2 ^ (b - 1)

\* lo = 2 ** bits
FindPrimeLo(b) == 2 ^ b

\* hi = 2 ** (bits + 1)
FindPrimeHi(b) == 2 ^ (b + 1)

\* p = rd.randint(lo, hi), and the call miller_rabin(p) of the loop condition
FindPrimeDraw ==
    /\ pc = "fp_draw"
    /\ \E cand \in FindPrimeLo(bits)..FindPrimeHi(bits) :
          /\ p' = cand
          /\ MillerRabinEnter(cand, DefaultTol, "find_prime",
                              ReturnTo("find_prime"))
    /\ UNCHANGED <<secret, n, k, bits, poly, points, pts, recovered, raised>>

\* while not miller_rabin(p): draw again; otherwise find_prime returns p and
\* make_shares goes on
FindPrimeCheck ==
    /\ pc = "fp_check"
    /\ pc' = IF mr_result THEN "create_poly" ELSE "fp_draw"
    /\ UNCHANGED <<caller, p>>
    /\ UNCHANGED mrVars
    /\ UNCHANGED shareVars
    /\ UNCHANGED recVars

\* ---- make_shares --------------------------------------------------------

\* the binary digits of a natural number, most significant first ("0" for 0)
RECURSIVE BinDigits(_)
BinDigits(v) ==
    IF v < 2 THEN <<IF v = 0 THEN "0" ELSE "1">>
    ELSE Append(BinDigits(v \div 2), IF v % 2 = 0 THEN "0" ELSE "1")

\* bin(v): an optional "-", then "0b", then the digits of abs(v)
bin(v) ==
    (IF v < 0 THEN <<"-">> ELSE <<>>) \o <<"0", "b">>
        \o BinDigits(IF v < 0 THEN -v ELSE v)

\* bits = len(bin(secret)) - 2
SecretBits(s) == Len(bin(s)) - 2

\* k = (n // 2) + 1
Threshold(m) == (m \div 2) + 1

\* make_shares(s, m) up to the call of find_prime
MakeSharesCall ==
    /\ pc = "idle"
    /\ \E s \in (-MaxNeg)..MaxSecret, m \in (-1)..MaxN :
          /\ secret' = s
          /\ n' = m
          /\ k' = Threshold(m)
          /\ bits' = SecretBits(s)
    /\ pc' = "fp_draw"
    /\ UNCHANGED <<caller, p, poly, points>>
    /\ UNCHANGED mrVars
    /\ UNCHANGED recVars

\* rd.randint(1, p)
CoefficientRange(q) == 1..q

\* create_polynomial(degree, p): [rd.randint(1, p) for _ in range(degree)]
create_polynomial(degree, q) == [1..degree -> CoefficientRange(q)]

\* poly = [secret] + create_polynomial(k - 1, p)
CreatePolynomial ==
    /\ pc = "create_poly"
    /\ \E coeffs \in create_polynomial(k - 1, p) :
          poly' = <<secret>> \o coeffs
    /\ pc' = "sample"
    /\ UNCHANGED <<caller, secret, n, k, bits, p, points>>
    /\ UNCHANGED mrVars
    /\ UNCHANGED recVars

\* x ** i for i >= 0 (Python: 0 ** 0 == 1)
Power(x, i) == IF i = 0 THEN 1 ELSE x ^ i

\* sum((c * (x ** i)) for i, c in enumerate(poly)), the terms from index j on
\* (enumerate counts from 0, the sequence from 1)
RECURSIVE TermSum(_, _, _)
TermSum(f, x, j) ==
    IF j > Len(f) THEN 0 ELSE f[j] * Power(x, j - 1) + TermSum(f, x, j + 1)

\* def f(x): return sum(...) % prime
Eval(f, x, prime) == TermSum(f, x, 1) % prime

\* [(x, f(x)) for x in range(0, n)]
sample_polynomial_from0(f, m, prime) ==
    [j \in 1..m |-> <<j - 1, Eval(f, j - 1, prime)>>]

\* [(x, f(x)) for x in range(1, n + 1)]
sample_polynomial(f, m, prime) ==
    [x \in 1..m |-> <<x, Eval(f, x, prime)>>]

\* points = sample_polynomial(poly, n, p); return points, p
SamplePolynomial ==
    /\ pc = "sample"
    /\ points' = sample_polynomial(poly, n, p)
    /\ pc' = "shared"
    /\ UNCHANGED <<caller, secret, n, k, bits, p, poly>>
    /\ UNCHANGED mrVars
    /\ UNCHANGED recVars

\* ---- reconstruct --------------------------------------------------------
\* prod and f0 are Python floats (binary64).  The model computes them as
\* exact fractions <<numerator, denominator>> in lowest terms, denominator > 0.
\* That is what binary64 computes as long as every quotient xm / (xm - xi) has
\* a power of two as denominator: the quotients, products, sums and the
\* remainder are then dyadic numbers far below 2 ** 53 and no operation
\* rounds.  The caller of the model passes only such lists (Binary64Exact).

Abs(v) == IF v < 0 THEN -v ELSE v

RECURSIVE Gcd(_, _)
Gcd(a, b) == IF b = 0 THEN a ELSE Gcd(b, a % b)

\* the fraction a / b in lowest terms, b /= 0
Frac(a, b) ==
    LET g == Gcd(Abs(a), Abs(b))
        s == IF b < 0 THEN -1 ELSE 1
    IN  <<(s * a) \div g, (s * b) \div g>>

FracMul(u, v) == Frac(u[1] * v[1], u[2] * v[2])

FracAdd(u, v) == Frac(u[1] * v[2] + v[1] * u[2], u[2] * v[2])

RECURSIVE IsPowerOfTwo(_)
IsPowerOfTwo(v) ==
    IF v = 1 THEN TRUE
    ELSE IF v < 1 \/ v % 2 /= 0 THEN FALSE
    ELSE IsPowerOfTwo(v \div 2)

\* the marker of a raised ZeroDivisionError (no fraction has denominator 0)
ZeroDivisionError == <<0, 0>>

\* xm / (xm - xi): Python raises ZeroDivisionError on a zero divisor
Quotient(xm, xi) ==
    IF xm - xi = 0 THEN ZeroDivisionError ELSE Frac(xm, xm - xi)

\* the inner loop from position m on, with prod so far:
\*   for xm, _ in pts: if xi != xm: prod *= xm / (xm - xi)
RECURSIVE InnerLoop(_, _, _, _)
InnerLoop(q, xi, m, prod) ==
    IF m > Len(q) THEN prod
    ELSE IF xi /= q[m][1]
    THEN IF Quotient(q[m][1], xi) = ZeroDivisionError
         THEN ZeroDivisionError
         ELSE InnerLoop(q, xi, m + 1, FracMul(prod, Quotient(q[m][1], xi)))
    ELSE InnerLoop(q, xi, m + 1, prod)

\* the outer loop from position i on, with f0 so far:
\*   for xi, yi in pts: prod = 1; ...; f0 += prod * yi
RECURSIVE OuterLoop(_, _, _)
OuterLoop(q, i, f0) ==
    IF i > Len(q) THEN f0
    ELSE LET prod == InnerLoop(q, q[i][1], 1, <<1, 1>>)
         IN  IF prod = ZeroDivisionError THEN ZeroDivisionError
             ELSE OuterLoop(q, i + 1, FracAdd(f0, FracMul(prod, <<q[i][2], 1>>)))

\* f0 % p as a fraction in [0, prime), prime > 0
FracMod(f0, prime) == Frac(f0[1] % (prime * f0[2]), f0[2])

\* int(f0 % p): the remainder is not negative, int() drops its fraction
IntOfRemainder(f0, prime) ==
    FracMod(f0, prime)[1] \div FracMod(f0, prime)[2]

\* reconstruct(q, prime): the value returned (-1: none) and the error raised
reconstruct(q, prime) ==
    LET f0 == OuterLoop(q, 1, <<0, 1>>)
    IN  IF f0 = ZeroDivisionError \/ prime = 0
        THEN [raised |-> "ZeroDivisionError", value |-> -1]
        ELSE [raised |-> "none", value |-> IntOfRemainder(f0, prime)]

\* ---- the caller's share lists -------------------------------------------

\* the members of a set of positions, in increasing order
RECURSIVE Ascending(_)
Ascending(I) ==
    IF I = {} THEN <<>>
    ELSE LET top == CHOOSE i \in I : \A j \in I : j <= i
         IN  Append(Ascending(I \ {top}), top)

\* the shares at the positions I, sorted by x as the demonstration does
Pick(shares, I) == [j \in 1..Cardinality(I) |-> shares[Ascending(I)[j]]]

\* every list of distinct shares a caller can assemble
ShareLists(shares) == {Pick(shares, I) : I \in SUBSET (1..Len(shares))}

\* a share list with the x of one point overwritten
WithX(q, i, x) == [q EXCEPT ![i] = <<x, q[i][2]>>]

\* share lists with one x set to 0 or to the x of another point of the list
MalformedLists(shares) ==
    UNION {{WithX(q, i, x) : i \in 1..Len(q),
                             x \in {0} \cup {q[j][1] : j \in 1..Len(q)}}
           : q \in ShareLists(shares)}

\* a point with x = 0, or two points with the same x
Malformed(q) ==
    \/ \E i \in 1..Len(q) : q[i][1] = 0
    \/ \E i, j \in 1..Len(q) : i /= j /\ q[i][1] = q[j][1]

\* whether every quotient reconstruct takes on q is exact in binary64
Binary64Exact(q) ==
    \A i, m \in 1..Len(q) :
        q[i][1] /= q[m][1] => IsPowerOfTwo(Frac(q[m][1], q[m][1] - q[i][1])[2])

\* a call reconstruct(q, p) with the prime make_shares returned
Reconstruct ==
    /\ pc = "shared"
    /\ \E q \in ShareLists(points) \cup MalformedLists(points) :
          /\ Binary64Exact(q)
          /\ pts' = q
          /\ raised' = reconstruct(q, p).raised
          /\ recovered' = reconstruct(q, p).value
    /\ pc' = "reconstructed"
    /\ UNCHANGED <<caller, p>>
    /\ UNCHANGED mrVars
    /\ UNCHANGED shareVars

\* ---- the system ---------------------------------------------------------

Init ==
    /\ pc = "idle"
    /\ caller = "api"
    /\ mr_n = 0
    /\ mr_tol = 0
    /\ mr_d = 0
    /\ mr_r = 0
    /\ mr_k = 0
    /\ answers = NoAnswers
    /\ mr_result = FALSE
    /\ liars = TRUE
    /\ secret = 0
    /\ n = 0
    /\ k = 0
    /\ bits = 0
    /\ p = 0
    /\ poly = <<>>
    /\ points = <<>>
    /\ pts = <<>>
    /\ recovered = -1
    /\ raised = "none"

Next ==
    \/ MillerRabinCall
    \/ MillerRabinTest
    \/ MillerRabinReturn
    \/ MakeSharesCall
    \/ FindPrimeDraw
    \/ FindPrimeCheck
    \/ CreatePolynomial
    \/ SamplePolynomial
    \/ Reconstruct

Spec == Init /\ [][Next]_vars

\* ---- properties ---------------------------------------------------------

\* primality by trial division
IsPrime(v) == v >= 2 /\ \A d \in 2..(v - 1) : v % d /= 0

\* f(x) by Horner's rule, from coefficient j on
RECURSIVE Horner(_, _, _)
Horner(f, x, j) ==
    IF j > Len(f) THEN 0 ELSE f[j] + x * Horner(f, x, j + 1)

Returned == pc \in {"shared", "reconstructed"}

MillerRabinReturned == pc \in {"mr_done", "fp_check"}

\* C1: for secret >= 0 and n >= 3, reconstruct on any k of the shares of
\* make_shares(secret, n) returns secret mod p.
RoundTrip ==
    (/\ pc = "reconstructed"
     /\ secret >= 0
     /\ n >= 3
     /\ pts \in ShareLists(points)
     /\ Len(pts) = k)
        => (raised = "none" /\ recovered = secret % p)

\* C2: fewer than k shares reveal nothing: every candidate secret in [0, p)
\* is consistent with them, for coefficients create_polynomial can draw.
NothingRevealed ==
    (Returned /\ n >= 1)
        => \A held \in ShareLists(points) :
              Len(held) < k
                 => \A s \in 0..(p - 1) :
                       \E coeffs \in create_polynomial(k - 1, p) :
                          \A j \in 1..Len(held) :
                             Eval(<<s>> \o coeffs, held[j][1], p) = held[j][2]

\* C3: the prime make_shares returns is strictly greater than a non-negative
\* secret.
PrimeExceedsSecret ==
    (Returned /\ secret >= 0) => p > secret

PrimeExceedsSecretWitness ==
    pc = "shared" /\ secret = 5 /\ n = 3 /\ p = 11

\* C4: make_shares called with n < 1 or with a negative secret does not
\* return a (shares, prime) result.
InvalidArgumentsRejected ==
    ~(Returned /\ (n < 1 \/ secret < 0))

\* C5: reconstruct on a share list with a repeated x or with x = 0 raises an
\* error and returns no value.
MalformedSharesRejected ==
    (pc = "reconstructed" /\ Malformed(pts)) => raised /= "none"

\* C6: miller_rabin returns True for every prime, whatever the rounds and
\* the witnesses; on a prime every witness passes, and passes before the last
\* of the r squarings.
NoFalseNegatives ==
    /\ (MillerRabinReturned /\ IsPrime(mr_n)) => mr_result = TRUE
    /\ (pc = "mr_test" /\ IsPrime(mr_n))
          => /\ answers.all
             /\ \A a \in 2..(mr_n - 2) :
                   /\ WitnessTest(mr_n, mr_d, mr_r, a)
                   /\ \/ FirstPower(a, mr_d, mr_r, mr_n) \in {1, mr_n - 1}
                      \/ SquaringLoop(FirstPower(a, mr_d, mr_r, mr_n),
                                      mr_n, mr_r - 1)

NoFalseNegativesWitness ==
    /\ pc = "mr_done"
    /\ mr_n = 17
    /\ mr_tol = DefaultTol
    /\ answers.len = Rounds(DefaultTol)
    /\ mr_result = TRUE

\* C7 as stated: at the default round count miller_rabin returns False for
\* every composite n >= 4, whatever the witnesses.
CompositesRejected ==
    (/\ pc = "mr_done"
     /\ mr_tol = DefaultTol
     /\ mr_n >= 4
     /\ ~IsPrime(mr_n))
        => mr_result = FALSE

\* C7 amended: miller_rabin returns True for a composite n >= 4 only if n is
\* odd and every witness drawn in its tol // 2 + 1 rounds is a strong liar
\* for n; it returns False as soon as n is even or one witness is no strong
\* liar.
CompositesRejectedUnlessLiars ==
    (MillerRabinReturned /\ mr_n >= 4 /\ ~IsPrime(mr_n))
        => (mr_result = (/\ mr_n % 2 = 1
                         /\ answers.len = Rounds(mr_tol)
                         /\ liars))

CompositeAcceptedWitness ==
    /\ pc = "mr_done"
    /\ mr_tol = DefaultTol
    /\ mr_n = 25
    /\ mr_result = TRUE

\* C8: for n >= 1 make_shares returns [(x, f(x) mod p) for x = 1..n], f having
\* k = n // 2 + 1 coefficients and constant term secret; the x are distinct
\* and not 0, every y is in [0, p).
SharesAreSamples ==
    (Returned /\ n >= 1)
        => /\ Len(points) = n
           /\ Len(poly) = (n \div 2) + 1
           /\ poly[1] = secret
           /\ \A x \in 1..n :
                 /\ points[x][1] = x
                 /\ points[x][2] = Horner(poly, x, 1) % p
                 /\ points[x][2] \in 0..(p - 1)
           /\ \A i, j \in 1..Len(points) :
                 i /= j => points[i][1] /= points[j][1]
           /\ \A i \in 1..Len(points) : points[i][1] /= 0

SharesAreSamplesWitness ==
    /\ pc = "shared"
    /\ n = 4
    /\ secret = 5
    /\ p = 13
    /\ poly = <<5, 13, 7>>
    /\ points = <<<<1, 12>>, <<2, 7>>, <<3, 3>>, <<4, 0>>>>

\* C9: create_polynomial(degree, p) returns degree coefficients, each in
\* [1, p - 1].
CoefficientsNonzero ==
    (pc = "sample" /\ k >= 1)
        => /\ Len(poly) - 1 = k - 1
           /\ \A j \in 2..Len(poly) : 1 <= poly[j] /\ poly[j] <= p - 1

\* C10: for secret >= 1 the prime of make_shares has the bit length of secret.
SameBitLength ==
    (Returned /\ secret >= 1) => BitLength(p) = BitLength(secret)

====
